---------------------------- MODULE Spec2Model ----------------------------
(***************************************************************************)
(* Bubble Shooter engine (src/unnamed/part_000, lines 221-829).            *)
(*                                                                         *)
(* The variable `state` is the script's `state` object.  Lengths are kept  *)
(* in fixed point, SUB units per pixel; time steps are in milliseconds and *)
(* angles in tenths of a degree.  The play field is scaled down so that    *)
(* the board has COLS = 2 columns and the floor is reached at row 4; the   *)
(* bubble radius, the speeds and the scoring constants are the source's.   *)
(* Fields that only feed the renderer (shooter.angle, state.input) and the *)
(* constant shooter position are not part of `state`; the pointer is the   *)
(* input of shoot().                                                       *)
(***************************************************************************)
EXTENDS Integers, Sequences, FiniteSets, TLC

VARIABLES state, log, shots, advances

vars == <<state, log, shots, advances>>

---------------------------------------------------------------------------
(* Bounds of the model *)

\* fixed-point resolution: units per pixel
SUB == 10
\* play-field width in pixels (480 in the source)
FIELD_W == 64
\* play-field height in pixels (720 in the source)
FIELD_H == 140
\* rows filled by seedBoard (6 in the source)
SeedRows == 3
\* state.drop.every, shots between ceiling advances (5 in the source)
DropEvery == 2
\* accepted shots explored per game
MaxShots == 2
\* number of palette colors in play (6 in the source)
PaletteSize == 2

---------------------------------------------------------------------------
(* Config, lines 232-239 *)

LOGICAL_W == FIELD_W * SUB
LOGICAL_H == FIELD_H * SUB
RADIUS == 16
R == RADIUS * SUB
D == R * 2
\* Math.sqrt(3)/2 * D, with sqrt(3) = 1.732
ROW_H == (1732 * D) \div 2000
COLS == LOGICAL_W \div D
COLORS == SubSeq(<<"red", "yellow", "green", "blue", "purple", "pink">>, 1, PaletteSize)
SHOOT_SPEED == 520
\* Math.PI * 0.06 = 10.8 degrees
MIN_ANGLE == 108
MAX_ANGLE == 1800 - MIN_ANGLE
\* Math.min(0.033, ...) seconds, in ms
MAX_DT == 33
GRAVITY == 1800
DropRows == 1

Null == "null"
ColorSet == {COLORS[i] : i \in 1..Len(COLORS)}

Max(a, b) == IF a >= b THEN a ELSE b
Min(a, b) == IF a <= b THEN a ELSE b
\* Math.round(a / b) for b > 0: floor(a/b + 0.5)
Round(a, b) == (2 * a + b) \div (2 * b)

ShooterX == LOGICAL_W \div 2
ShooterY == LOGICAL_H - 40 * SUB

---------------------------------------------------------------------------
(* Grid helpers, lines 270-315.  Row r of the source is grid[r+1], column  *)
(* c of a row is row[c+1].                                                 *)

rowCols(r) == IF r % 2 = 0 THEN COLS ELSE COLS - 1

\* the test `r % 2 === 1`: the remainder of a negative odd r is -1 in the
\* source's arithmetic, so the test is true of the positive odd rows only
oddRow(r) == r > 0 /\ r % 2 = 1

EmptyRow(r) == [k \in 1..rowCols(r) |-> Null]

ensureRows(S, n) ==
  LET len == Len(S.grid)
      grown == IF n > len
               THEN S.grid \o [i \in 1..(n - len) |-> EmptyRow(len + i - 1)]
               ELSE S.grid
  IN [S EXCEPT !.grid = grown, !.rows = Len(grown)]

cellToWorld(c, r) ==
  LET offset == IF oddRow(r) THEN R ELSE 0
  IN [x |-> c * D + R + offset, y |-> r * ROW_H + R]

\* faulty variant of worldToCell: the odd-row offset is not subtracted
worldToCellNoOffset(x, y) ==
  LET r == Max(0, Round(y - R, ROW_H))
  IN [c |-> Round(x - R, D), r |-> r]

worldToCell(x, y) ==
  LET r == Max(0, Round(y - R, ROW_H))
      offset == IF oddRow(r) THEN R ELSE 0
  IN [c |-> Round(x - R - offset, D), r |-> r]

\* faulty variant of neighbors: the even-row offsets are used on every row
neighborsEvenOnly(c, r) ==
  LET deltas == << <<-1,0>>, <<1,0>>, <<-1,-1>>, <<0,-1>>, <<-1,1>>, <<0,1>> >>
  IN [i \in 1..6 |-> [c |-> c + deltas[i][1], r |-> r + deltas[i][2]]]

neighbors(c, r) ==
  LET deltas == IF oddRow(r)
                THEN << <<-1,0>>, <<1,0>>, <<0,-1>>, <<1,-1>>, <<0,1>>, <<1,1>> >>
                ELSE << <<-1,0>>, <<1,0>>, <<-1,-1>>, <<0,-1>>, <<-1,1>>, <<0,1>> >>
  IN [i \in 1..6 |-> [c |-> c + deltas[i][1], r |-> r + deltas[i][2]]]

inBounds(S, c, r) ==
  IF r < 0 \/ r >= S.rows THEN FALSE
  ELSE c >= 0 /\ c < rowCols(r)

CellAt(S, c, r) == S.grid[r + 1][c + 1]

occupiedAt(S, c, r) == inBounds(S, c, r) /\ CellAt(S, c, r) # Null

SetCell(S, c, r, v) == [S EXCEPT !.grid[r + 1][c + 1] = v]

\* returns the state and the boolean result
\* faulty variant of placeAt: an occupied cell is overwritten
placeAtOverwrites(S, c, r, color) ==
  LET S1 == ensureRows(S, Max(S.rows, r + 1))
  IN IF ~inBounds(S1, c, r) THEN [S |-> S1, ok |-> FALSE]
     ELSE [S |-> SetCell(S1, c, r, color), ok |-> TRUE]

placeAt(S, c, r, color) ==
  LET S1 == ensureRows(S, Max(S.rows, r + 1))
  IN IF ~inBounds(S1, c, r) \/ CellAt(S1, c, r) # Null
     THEN [S |-> S1, ok |-> FALSE]
     ELSE [S |-> SetCell(S1, c, r, color), ok |-> TRUE]

---------------------------------------------------------------------------
(* Seed board, lines 318-331.  `fill` is the set of cells <<c, r>> for    *)
(* which Math.random() < 0.85 came out true.                               *)

seedBoard(S, rows, fill) ==
  LET S0 == ensureRows([S EXCEPT !.grid = <<>>], rows)
      g == [rr \in 1..Len(S0.grid) |->
              IF rr <= rows
              THEN [cc \in 1..rowCols(rr - 1) |->
                      IF <<cc - 1, rr - 1>> \in fill
                      THEN COLORS[((rr - 1 + cc - 1) % Min(4, Len(COLORS))) + 1]
                      ELSE Null]
              ELSE S0.grid[rr]]
  IN [S0 EXCEPT !.grid = g, !.rows = Len(g)]

SeedCells(rows) == {<<c, r>> \in (0..(COLS - 1)) \X (0..(rows - 1)) : c < rowCols(r)}

---------------------------------------------------------------------------
(* Colors, lines 334-355 *)

\* the cells of the board in the order of the source's nested loops
RECURSIVE CellsFrom(_, _)
CellsFrom(S, r) ==
  IF r >= S.rows THEN <<>>
  ELSE [i \in 1..rowCols(r) |-> [c |-> i - 1, r |-> r]] \o CellsFrom(S, r + 1)

AllCells(S) == CellsFrom(S, 0)

Occupied(S) == {<<c, r>> \in (0..(COLS - 1)) \X (0..(S.rows - 1)) :
                  c < rowCols(r) /\ CellAt(S, c, r) # Null}

\* faulty variant of activeColorPool: the whole palette, whatever the board
activeColorPoolWholePalette(S) == ColorSet

activeColorPool(S) ==
  LET present == {CellAt(S, p[1], p[2]) : p \in Occupied(S)}
  IN IF present # {} THEN present ELSE ColorSet

\* `c1`, `c2` are the colors picked by randomAvailableColor()
prepareShooter(S, c1, c2) ==
  LET cur == IF S.shooter.current = Null THEN c1 ELSE S.shooter.current
      nxt == IF S.shooter.next = Null THEN c2 ELSE S.shooter.next
  IN [S EXCEPT !.shooter = [current |-> cur, next |-> nxt]]

---------------------------------------------------------------------------
(* Matching and floating islands, lines 358-428 *)

\* one pass of `for(const nb of neighbors(c,r))` inside bfsSameColor,
\* from the i-th neighbor on; w holds the queue q, the set seen and out
RECURSIVE bfsSameColorVisit(_, _, _, _, _)
bfsSameColorVisit(S, color, nbs, i, w) ==
  IF i > Len(nbs) THEN w
  ELSE LET nb == nbs[i]
       IN IF ~inBounds(S, nb.c, nb.r) THEN bfsSameColorVisit(S, color, nbs, i + 1, w)
          ELSE IF <<nb.c, nb.r>> \in w.seen THEN bfsSameColorVisit(S, color, nbs, i + 1, w)
          ELSE IF CellAt(S, nb.c, nb.r) = color
               THEN bfsSameColorVisit(S, color, nbs, i + 1,
                      [q |-> Append(w.q, nb),
                       seen |-> w.seen \cup {<<nb.c, nb.r>>},
                       out |-> Append(w.out, nb)])
               ELSE bfsSameColorVisit(S, color, nbs, i + 1, w)

\* the `while(q.length)` loop of bfsSameColor
RECURSIVE bfsSameColorLoop(_, _, _)
bfsSameColorLoop(S, color, w) ==
  IF w.q = <<>> THEN w.out
  ELSE LET cur == Head(w.q)
       IN bfsSameColorLoop(S, color,
            bfsSameColorVisit(S, color, neighbors(cur.c, cur.r), 1,
                              [w EXCEPT !.q = Tail(w.q)]))

bfsSameColor(S, c0, r0) ==
  IF ~inBounds(S, c0, r0) THEN <<>>
  ELSE IF CellAt(S, c0, r0) = Null THEN <<>>
  ELSE bfsSameColorLoop(S, CellAt(S, c0, r0),
         [q |-> << [c |-> c0, r |-> r0] >>,
          seen |-> {<<c0, r0>>},
          out |-> << [c |-> c0, r |-> r0] >>])

\* state.grid[r][c] = null for every cell of the sequence
RECURSIVE ClearCells(_, _, _)
ClearCells(S, cells, i) ==
  IF i > Len(cells) THEN S
  ELSE ClearCells(SetCell(S, cells[i].c, cells[i].r, Null), cells, i + 1)

\* faulty variant of PopThreshold: pairs pop too
PopThresholdPairs(n) == n >= 2

\* minimum cluster size that pops (line 384)
PopThreshold(n) == n >= 3

\* faulty variant of popClusterAt: the group scores even when too small to pop
popClusterAtScoresAlways(S, c, r) ==
  LET cluster == bfsSameColor(S, c, r)
      S1 == [S EXCEPT !.score = S.score + Len(cluster) * 10]
  IN IF PopThreshold(Len(cluster))
     THEN [S |-> ClearCells(S1, cluster, 1), n |-> Len(cluster)]
     ELSE [S |-> S1, n |-> 0]

\* returns the state and the number of bubbles popped
popClusterAt(S, c, r) ==
  LET cluster == bfsSameColor(S, c, r)
  IN IF PopThreshold(Len(cluster))
     THEN [S |-> [ClearCells(S, cluster, 1) EXCEPT !.score = S.score + Len(cluster) * 10],
           n |-> Len(cluster)]
     ELSE [S |-> S, n |-> 0]

RECURSIVE reachableVisit(_, _, _, _)
reachableVisit(S, nbs, i, w) ==
  IF i > Len(nbs) THEN w
  ELSE LET nb == nbs[i]
       IN IF ~inBounds(S, nb.c, nb.r) THEN reachableVisit(S, nbs, i + 1, w)
          ELSE IF <<nb.c, nb.r>> \in w.seen THEN reachableVisit(S, nbs, i + 1, w)
          ELSE IF CellAt(S, nb.c, nb.r) # Null
               THEN reachableVisit(S, nbs, i + 1,
                      [q |-> Append(w.q, nb), seen |-> w.seen \cup {<<nb.c, nb.r>>}])
               ELSE reachableVisit(S, nbs, i + 1, w)

RECURSIVE reachableLoop(_, _)
reachableLoop(S, w) ==
  IF w.q = <<>> THEN w.seen
  ELSE LET cur == Head(w.q)
       IN reachableLoop(S, reachableVisit(S, neighbors(cur.c, cur.r), 1,
                                         [w EXCEPT !.q = Tail(w.q)]))

\* the set of keys "c,r" of the cells connected to row 0
computeReachableFromCeiling(S) ==
  LET top == IF S.rows > 0
             THEN SelectSeq([i \in 1..rowCols(0) |-> [c |-> i - 1, r |-> 0]],
                            LAMBDA p : CellAt(S, p.c, p.r) # Null)
             ELSE <<>>
  IN reachableLoop(S, [q |-> top, seen |-> {<<top[i].c, top[i].r>> : i \in 1..Len(top)}])

\* the cells dropIslands collects in toDrop
IslandCells(S) ==
  LET reachable == computeReachableFromCeiling(S)
  IN SelectSeq(AllCells(S),
               LAMBDA p : CellAt(S, p.c, p.r) # Null /\ <<p.c, p.r>> \notin reachable)

\* faulty variant of dropIslands: an island bubble scores like a popped one
dropIslandsAsPops(S) ==
  LET toDrop == IslandCells(S)
      parts == [i \in 1..Len(toDrop) |->
                  [x |-> cellToWorld(toDrop[i].c, toDrop[i].r).x,
                   y |-> cellToWorld(toDrop[i].c, toDrop[i].r).y,
                   vy |-> 0,
                   color |-> CellAt(S, toDrop[i].c, toDrop[i].r)]]
  IN IF Len(toDrop) = 0 THEN [S |-> S, n |-> 0]
     ELSE [S |-> [ClearCells(S, toDrop, 1) EXCEPT
                    !.falling = S.falling \o parts,
                    !.score = S.score + Len(toDrop) * 10],
           n |-> Len(toDrop)]

\* returns the state and the number of bubbles dropped
dropIslands(S) ==
  LET toDrop == IslandCells(S)
      parts == [i \in 1..Len(toDrop) |->
                  [x |-> cellToWorld(toDrop[i].c, toDrop[i].r).x,
                   y |-> cellToWorld(toDrop[i].c, toDrop[i].r).y,
                   vy |-> 0,
                   color |-> CellAt(S, toDrop[i].c, toDrop[i].r)]]
  IN IF Len(toDrop) = 0 THEN [S |-> S, n |-> 0]
     ELSE [S |-> [ClearCells(S, toDrop, 1) EXCEPT
                    !.falling = S.falling \o parts,
                    !.score = S.score + Len(toDrop) * 5],
           n |-> Len(toDrop)]

---------------------------------------------------------------------------
(* Shooting, lines 452-477 *)

\* faulty variant of clamp: the angle is not limited at all
clampNone(v, a, b) == v

\* faulty variant of clamp: the lower limit is not applied
clampUpperOnly(v, a, b) == Min(b, v)

clamp(v, a, b) == Max(a, Min(b, v))

\* Math.atan2(dy, dx) in tenths of a degree, for the sampled pointer
\* directions (the eight compass directions and the shooter itself)
Atan2(dy, dx) ==
  CASE dy = 0 /\ dx >= 0 -> 0
    [] dy = 0 /\ dx < 0 -> 1800
    [] dx = 0 /\ dy > 0 -> 900
    [] dx = 0 /\ dy < 0 -> -900
    [] dx > 0 /\ dy = dx -> 450
    [] dx < 0 /\ dy = -dx -> 1350
    [] dx > 0 /\ dy = -dx -> -450
    [] dx < 0 /\ dy = dx -> -1350

\* 1000 * Math.cos(angle) and 1000 * Math.sin(angle), angle in tenths of a degree
CosMilli(a) ==
  CASE a = 108 -> 982 [] a = 450 -> 707 [] a = 900 -> 0
    [] a = 1350 -> -707 [] a = 1692 -> -982
    [] a = 0 -> 1000 [] a = 1800 -> -1000
    [] a = -450 -> 707 [] a = -900 -> 0 [] a = -1350 -> -707

SinMilli(a) ==
  CASE a = 108 -> 187 [] a = 450 -> 707 [] a = 900 -> 1000
    [] a = 1350 -> 707 [] a = 1692 -> 187
    [] a = 0 -> 0 [] a = 1800 -> 0
    [] a = -450 -> -707 [] a = -900 -> -1000 [] a = -1350 -> -707

\* pointer positions relative to the shooter, <<dx, dy>> with dy already
\* inverted (up is positive)
Pointers ==
  { <<0, 1>>, <<1, 1>>, <<-1, 1>>, <<1, 0>>, <<-1, 0>>,
    <<0, -1>>, <<1, -1>>, <<-1, -1>>, <<0, 0>> }

\* faulty variant of ShootGuard: the pause is not consulted
ShootGuardIgnoresPause(S) == S.moving # <<>> \/ S.mode # "playing"

ShootGuard(S) == S.moving # <<>> \/ ~S.running \/ S.mode # "playing"

\* faulty variant of shoot: the advance falls due one shot early
shootDueEarly(S, p, color) ==
  IF ShootGuard(S) THEN S
  ELSE LET angle == clamp(Atan2(p[2], p[1]), MIN_ANGLE, MAX_ANGLE)
           vx == (CosMilli(angle) * SHOOT_SPEED * SUB) \div 1000
           vy == -((SinMilli(angle) * SHOOT_SPEED * SUB) \div 1000)
           S1 == [S EXCEPT
                    !.moving = << [x |-> ShooterX, y |-> ShooterY, vx |-> vx, vy |-> vy,
                                   color |-> S.shooter.current] >>,
                    !.shooter = [current |-> S.shooter.next, next |-> color]]
           left == S1.drop.shotsLeft - 1
       IN IF S1.mode = "playing"
          THEN IF left <= 1
               THEN [S1 EXCEPT !.drop.pending = TRUE, !.drop.shotsLeft = S1.drop.every]
               ELSE [S1 EXCEPT !.drop.shotsLeft = left]
          ELSE S1

\* faulty variant of shoot: the projectile takes the colour queued as next
shootCarriesNext(S, p, color) ==
  IF ShootGuard(S) THEN S
  ELSE LET angle == clamp(Atan2(p[2], p[1]), MIN_ANGLE, MAX_ANGLE)
           vx == (CosMilli(angle) * SHOOT_SPEED * SUB) \div 1000
           vy == -((SinMilli(angle) * SHOOT_SPEED * SUB) \div 1000)
           S1 == [S EXCEPT
                    !.moving = << [x |-> ShooterX, y |-> ShooterY, vx |-> vx, vy |-> vy,
                                   color |-> S.shooter.next] >>,
                    !.shooter = [current |-> S.shooter.next, next |-> color]]
           left == S1.drop.shotsLeft - 1
       IN IF S1.mode = "playing"
          THEN IF left <= 0
               THEN [S1 EXCEPT !.drop.pending = TRUE, !.drop.shotsLeft = S1.drop.every]
               ELSE [S1 EXCEPT !.drop.shotsLeft = left]
          ELSE S1

\* faulty variant of shoot: the counter is not reset when the advance falls due
shootNoReset(S, p, color) ==
  IF ShootGuard(S) THEN S
  ELSE LET angle == clamp(Atan2(p[2], p[1]), MIN_ANGLE, MAX_ANGLE)
           vx == (CosMilli(angle) * SHOOT_SPEED * SUB) \div 1000
           vy == -((SinMilli(angle) * SHOOT_SPEED * SUB) \div 1000)
           S1 == [S EXCEPT
                    !.moving = << [x |-> ShooterX, y |-> ShooterY, vx |-> vx, vy |-> vy,
                                   color |-> S.shooter.current] >>,
                    !.shooter = [current |-> S.shooter.next, next |-> color]]
           left == S1.drop.shotsLeft - 1
       IN IF S1.mode = "playing"
          THEN IF left <= 0
               THEN [S1 EXCEPT !.drop.pending = TRUE, !.drop.shotsLeft = left]
               ELSE [S1 EXCEPT !.drop.shotsLeft = left]
          ELSE S1

\* `p` is the pointer offset, `color` the pick of randomAvailableColor()
shoot(S, p, color) ==
  IF ShootGuard(S) THEN S
  ELSE LET angle == clamp(Atan2(p[2], p[1]), MIN_ANGLE, MAX_ANGLE)
           vx == (CosMilli(angle) * SHOOT_SPEED * SUB) \div 1000
           vy == -((SinMilli(angle) * SHOOT_SPEED * SUB) \div 1000)
           S1 == [S EXCEPT
                    !.moving = << [x |-> ShooterX, y |-> ShooterY, vx |-> vx, vy |-> vy,
                                   color |-> S.shooter.current] >>,
                    !.shooter = [current |-> S.shooter.next, next |-> color]]
           left == S1.drop.shotsLeft - 1
       IN IF S1.mode = "playing"
          THEN IF left <= 0
               THEN [S1 EXCEPT !.drop.pending = TRUE, !.drop.shotsLeft = S1.drop.every]
               ELSE [S1 EXCEPT !.drop.shotsLeft = left]
          ELSE S1

---------------------------------------------------------------------------
(* Collision and snapping, lines 495-543 *)

hitsSideWall(ball) ==
  (ball.x - R <= 0 /\ ball.vx < 0) \/ (ball.x + R >= LOGICAL_W /\ ball.vx > 0)

reflectX(ball) == [ball EXCEPT !.vx = -ball.vx]

distance2(ax, ay, bx, by) == (ax - bx) * (ax - bx) + (ay - by) * (ay - by)

findCollision(S, ball) ==
  IF ball.y - R <= 0 THEN "ceiling"
  ELSE LET approxR == Max(0, Round(ball.y - R, ROW_H))
           rr2 == (R + R) * (R + R)
       IN IF \E r \in (approxR - 2)..(approxR + 2) :
               /\ r >= 0 /\ r < S.rows
               /\ \E c \in 0..(rowCols(r) - 1) :
                    /\ CellAt(S, c, r) # Null
                    /\ distance2(ball.x, ball.y,
                                 cellToWorld(c, r).x, cellToWorld(c, r).y) <= rr2
          THEN "grid"
          ELSE "none"

\* the candidate list: the seed cell, its neighbors, their neighbors
snapCandidates(c, r) ==
  LET n1 == neighbors(c, r)
  IN << [c |-> c, r |-> r] >> \o n1
       \o [k \in 1..36 |-> neighbors(n1[((k - 1) \div 6) + 1].c,
                                      n1[((k - 1) \div 6) + 1].r)[((k - 1) % 6) + 1]]

\* faulty variant of snapScan: the first free candidate is taken
snapScanFirstFree(S1, x, y, cands, free, d2) ==
  [S |-> S1,
   best |-> IF free = {} THEN <<>>
            ELSE << cands[CHOOSE i \in free : \A j \in free : i <= j] >>]

\* lines 534-542: the scan for the nearest free candidate; the strict `<`
\* keeps the first of equally near candidates.  best is <<>> for null
snapScan(S1, x, y, cands, free, d2) ==
  [S |-> S1,
   best |-> IF free = {} THEN <<>>
            ELSE << cands[CHOOSE i \in free :
                            \A j \in free : d2[i] < d2[j] \/ (d2[i] = d2[j] /\ i <= j)] >>]

snapAmong(S1, x, y, cands) ==
  snapScan(S1, x, y, cands,
           {i \in 1..Len(cands) :
              inBounds(S1, cands[i].c, cands[i].r) /\ ~occupiedAt(S1, cands[i].c, cands[i].r)},
           [i \in 1..Len(cands) |->
              distance2(x, y, cellToWorld(cands[i].c, cands[i].r).x,
                              cellToWorld(cands[i].c, cands[i].r).y)])

snapFrom(S, x, y, w) ==
  snapAmong(ensureRows(S, Max(0, w.r) + 2), x, y, snapCandidates(w.c, Max(0, w.r)))

\* returns the state (rows may have grown) and best
snapToNearestFreeCell(S, x, y) == snapFrom(S, x, y, worldToCell(x, y))

---------------------------------------------------------------------------
(* Win / lose, lines 589-616 *)

\* faulty variant of gridIsEmpty: only the ceiling row is inspected
gridIsEmptyTopRow(S) ==
  \A r \in 0..(Min(S.rows, 1) - 1) : \A c \in 0..(rowCols(r) - 1) : CellAt(S, c, r) = Null

gridIsEmpty(S) ==
  \A r \in 0..(S.rows - 1) : \A c \in 0..(rowCols(r) - 1) : CellAt(S, c, r) = Null

\* faulty variant of touchesFloor: the bubble's centre, not its rim, is tested
touchesFloorCentre(S) ==
  \E r \in 0..(S.rows - 1) : \E c \in 0..(rowCols(r) - 1) :
     CellAt(S, c, r) # Null /\ cellToWorld(c, r).y >= LOGICAL_H - 1 * SUB

touchesFloor(S) ==
  \E r \in 0..(S.rows - 1) : \E c \in 0..(rowCols(r) - 1) :
     CellAt(S, c, r) # Null /\ cellToWorld(c, r).y + R >= LOGICAL_H - 1 * SUB

\* faulty variant of checkWinLose: the floor test is skipped on a board of
\* more than SeedRows + 2 rows
checkWinLoseSeededOnly(S) ==
  IF gridIsEmpty(S) THEN [S EXCEPT !.mode = "win", !.running = FALSE]
  ELSE IF S.rows <= SeedRows + 2 /\ touchesFloor(S)
       THEN [S EXCEPT !.mode = "lose", !.running = FALSE]
       ELSE S

checkWinLose(S) ==
  IF gridIsEmpty(S) THEN [S EXCEPT !.mode = "win", !.running = FALSE]
  ELSE IF touchesFloor(S) THEN [S EXCEPT !.mode = "lose", !.running = FALSE]
  ELSE S

---------------------------------------------------------------------------
(* Ceiling drop mechanics, lines 546-586 *)

\* faulty variant of NormalizeRow: rows are padded but never truncated
NormalizeRowPadOnly(row, r) ==
  [k \in 1..Max(rowCols(r), Len(row)) |-> IF k <= Len(row) THEN row[k] ELSE Null]

\* the row-length normalisation loop of dropCeiling, applied to row r
NormalizeRow(row, r) ==
  [k \in 1..rowCols(r) |-> IF k <= Len(row) THEN row[k] ELSE Null]

\* `newRows` are the rows makeRowAt(0) produced, in the order of the calls
dropCeiling(S, rows, newRows) ==
  LET unshifted == [i \in 1..rows |-> newRows[rows - i + 1]] \o S.grid
      g == [rr \in 1..Len(unshifted) |-> NormalizeRow(unshifted[rr], rr - 1)]
  IN checkWinLose([S EXCEPT !.grid = g, !.rows = Len(g)])

\* whether a call of onShotResolved() advances the ceiling
DropDue(S) == S.mode = "playing" /\ S.drop.pending

\* faulty variant of onShotResolved: the shot is counted at resolution too
onShotResolvedCounts(S, newRows) ==
  IF S.mode # "playing" THEN S
  ELSE IF S.drop.pending
       THEN dropCeiling([S EXCEPT !.drop.pending = FALSE], S.drop.rows, newRows)
       ELSE [S EXCEPT !.drop.shotsLeft = S.drop.shotsLeft - 1]

onShotResolved(S, newRows) ==
  IF S.mode # "playing" THEN S
  ELSE IF S.drop.pending
       THEN dropCeiling([S EXCEPT !.drop.pending = FALSE], S.drop.rows, newRows)
       ELSE S

\* the rows makeRowAt(0) can produce for a call of onShotResolved():
\* every cell drawn from activeColorPool()
makeRowAt(S, r) == [1..rowCols(r) -> activeColorPool(S)]

RowDraws(S, called) ==
  IF called /\ DropDue(S) THEN [1..S.drop.rows -> makeRowAt(S, 0)] ELSE { <<>> }

---------------------------------------------------------------------------
(* Update, lines 620-678.  dt is in milliseconds.                          *)

\* lines 637-639: integrate the shot bubble and reflect it on a side wall
stepShot(b, dt) ==
  LET b1 == [b EXCEPT !.x = b.x + Round(b.vx * dt, 1000),
                      !.y = b.y + Round(b.vy * dt, 1000)]
  IN IF hitsSideWall(b1) THEN reflectX(b1) ELSE b1

NoResolution(S) ==
  [S |-> S, hit |-> "none", target |-> <<>>, called |-> FALSE, placed |-> FALSE,
   popped |-> 0, dropped |-> 0,
   gridPlaced |-> <<>>, gridPopped |-> <<>>, gridDropped |-> <<>>,
   fallingDropped |-> <<>>]

\* lines 642-657: the `if(hit)` branch up to and including checkWinLose();
\* `called` says whether onShotResolved() is called next.  P, Q and I are the
\* results of placeAt, popClusterAt and dropIslands
resolved(hit, t, P, Q, I) ==
  [S |-> [checkWinLose(I.S) EXCEPT !.moving = <<>>],
   hit |-> hit, target |-> << t >>, called |-> TRUE, placed |-> P.ok,
   popped |-> Q.n, dropped |-> I.n,
   gridPlaced |-> P.S.grid, gridPopped |-> Q.S.grid, gridDropped |-> I.S.grid,
   fallingDropped |-> I.S.falling]

\* faulty variant of resolvePopped: dropIslands() runs after every placement
resolveDropsAlways(hit, t, P, Q) == resolved(hit, t, P, Q, dropIslands(Q.S))

resolvePopped(hit, t, P, Q) ==
  resolved(hit, t, P, Q, IF Q.n > 0 THEN dropIslands(Q.S) ELSE [S |-> Q.S, n |-> 0])

resolvePlaced(hit, t, P) == resolvePopped(hit, t, P, popClusterAt(P.S, t.c, t.r))

resolveSnapped(b, hit, snap) ==
  IF snap.best = <<>>
  THEN [NoResolution([snap.S EXCEPT !.moving = <<>>]) EXCEPT !.hit = hit]
  ELSE resolvePlaced(hit, snap.best[1],
                     placeAt(snap.S, snap.best[1].c, snap.best[1].r, b.color))

resolveHit(S, b, hit) ==
  resolveSnapped(b, hit, IF hit = "ceiling" THEN snapToNearestFreeCell(S, b.x, R)
                         ELSE snapToNearestFreeCell(S, b.x, b.y))

shotMoved(S, b) ==
  IF findCollision(S, b) # "none" THEN resolveHit(S, b, findCollision(S, b))
  ELSE NoResolution(S)

\* lines 635-657: move the shot bubble and resolve a hit
shotPhase(S, dt) ==
  IF S.moving = <<>> THEN NoResolution(S)
  ELSE shotMoved([S EXCEPT !.moving = << stepShot(S.moving[1], dt) >>],
                 stepShot(S.moving[1], dt))

\* line 660: the moved bubble is below the screen
fellBelow(S, dt) ==
  /\ S.moving # <<>>
  /\ stepShot(S.moving[1], dt).y - R > LOGICAL_H + 20 * SUB

\* lines 667-674: gravity on the falling bubbles, then the cull
stepFalling(S, dt) ==
  LET moved == [i \in 1..Len(S.falling) |->
                  LET f == S.falling[i]
                      vy == f.vy + (GRAVITY * SUB * dt) \div 1000
                  IN [f EXCEPT !.vy = vy, !.y = f.y + Round(vy * dt, 1000)]]
  IN [S EXCEPT !.falling = SelectSeq(moved, LAMBDA f : f.y - R <= LOGICAL_H + 60 * SUB)]

\* line 677
finalCheck(S) == IF S.mode = "playing" THEN checkWinLose(S) ELSE S

\* lines 654 and 660-663: the two calls of onShotResolved(); rows1 and rows2
\* are the rows each call draws
afterHit(A, rows1) == IF A.called THEN onShotResolved(A.S, rows1) ELSE A.S

afterBelow(B, below, rows2) ==
  IF below THEN onShotResolved([B EXCEPT !.moving = <<>>], rows2) ELSE B

\* update(dt)
update(S, dt, rows1, rows2) ==
  finalCheck(stepFalling(
    afterBelow(afterHit(shotPhase(S, dt), rows1), fellBelow(S, dt), rows2), dt))

---------------------------------------------------------------------------
(* The state after construction and boot, lines 256-267 and 825-829 *)

state0 ==
  [running |-> TRUE, mode |-> "playing", score |-> 0, grid |-> <<>>, rows |-> 0,
   shooter |-> [current |-> Null, next |-> Null],
   moving |-> <<>>, falling |-> <<>>,
   drop |-> [every |-> DropEvery, shotsLeft |-> DropEvery, rows |-> DropRows,
             pending |-> FALSE]]

boot(fill, c1, c2) ==
  LET S1 == prepareShooter(seedBoard(state0, SeedRows, fill), c1, c2)
  IN [S1 EXCEPT !.drop.shotsLeft = S1.drop.every]

\* faulty variant of restart: the drop schedule is left as it was
restartKeepsSchedule(S, fill, c1, c2) ==
  LET S1 == seedBoard([S EXCEPT !.running = TRUE, !.mode = "playing", !.score = 0,
                                !.moving = <<>>, !.falling = <<>>], SeedRows, fill)
      S2 == [S1 EXCEPT !.shooter = [current |-> Null, next |-> Null]]
  IN prepareShooter(S2, c1, c2)

\* lines 810-823
restart(S, fill, c1, c2) ==
  LET S1 == seedBoard([S EXCEPT !.running = TRUE, !.mode = "playing", !.score = 0,
                                !.moving = <<>>, !.falling = <<>>], SeedRows, fill)
      S2 == [S1 EXCEPT !.shooter = [current |-> Null, next |-> Null],
                       !.drop.shotsLeft = S1.drop.every, !.drop.pending = FALSE]
  IN prepareShooter(S2, c1, c2)

\* faulty variant of togglePause: resuming also resumes play
togglePauseResumesPlay(S) ==
  [S EXCEPT !.running = ~S.running,
            !.mode = IF ~S.running THEN "playing" ELSE S.mode]

\* lines 483 and 489
togglePause(S) == [S EXCEPT !.running = ~S.running]

---------------------------------------------------------------------------
(* Actions.  `log` records which handler ran last and, for a frame, what   *)
(* its shot resolution did; `shots` counts the accepted shots and          *)
(* `advances` the ceiling advances since boot or restart.                  *)

\* loop(now) passes dt = min(0.033, elapsed); the frames explored are the
\* capped ones
FrameDts == {MAX_DT}

OpLog(op) ==
  [op |-> op, ran |-> FALSE, hit |-> "none", target |-> <<>>, called |-> FALSE,
   placed |-> FALSE, popped |-> 0, dropped |-> 0,
   gridPlaced |-> <<>>, gridPopped |-> <<>>, gridDropped |-> <<>>,
   fallingDropped |-> <<>>, advanced |-> 0]

Init ==
  \E fill \in SUBSET SeedCells(SeedRows) :
    \E c1 \in activeColorPool(seedBoard(state0, SeedRows, fill)) :
      \E c2 \in activeColorPool(seedBoard(state0, SeedRows, fill)) :
        /\ state = boot(fill, c1, c2)
        /\ log = OpLog("boot")
        /\ shots = 0
        /\ advances = 0

\* the click / space-bar handler: shoot() with the sampled pointer
Shoot ==
  IF ShootGuard(state)
  THEN /\ state' = shoot(state, <<0, 1>>, state.shooter.next)
       /\ log' = OpLog("shoot")
       /\ UNCHANGED <<shots, advances>>
  ELSE \E p \in Pointers : \E color \in activeColorPool(state) :
         /\ shots < MaxShots
         /\ state' = shoot(state, p, color)
         /\ log' = [OpLog("shoot") EXCEPT !.ran = TRUE]
         /\ shots' = shots + 1
         /\ UNCHANGED advances

Pause ==
  /\ state' = togglePause(state)
  /\ log' = OpLog("pause")
  /\ UNCHANGED <<shots, advances>>

\* restart(); the seeded boards explored after a restart are the full and
\* the empty one (boot explores every board)
RestartFills == {SeedCells(SeedRows), {}}

Restart ==
  \E fill \in RestartFills :
    \E c1 \in activeColorPool(seedBoard(state, SeedRows, fill)) :
      \E c2 \in activeColorPool(seedBoard(state, SeedRows, fill)) :
        /\ state' = restart(state, fill, c1, c2)
        /\ log' = OpLog("restart")
        /\ shots' = 0
        /\ advances' = 0

\* number of ceiling advances the two calls of onShotResolved() make
advancesIn(A, B, below) ==
  (IF A.called /\ DropDue(A.S) THEN 1 ELSE 0)
  + (IF below /\ DropDue([B EXCEPT !.moving = <<>>]) THEN 1 ELSE 0)

TickLog(A, n) ==
  [op |-> "tick", ran |-> TRUE, hit |-> A.hit, target |-> A.target, called |-> A.called,
   placed |-> A.placed, popped |-> A.popped, dropped |-> A.dropped,
   gridPlaced |-> A.gridPlaced, gridPopped |-> A.gridPopped,
   gridDropped |-> A.gridDropped, fallingDropped |-> A.fallingDropped,
   advanced |-> n]

TickEnd(A, B, below, dt) ==
  \E rows2 \in RowDraws([B EXCEPT !.moving = <<>>], below) :
    /\ state' = finalCheck(stepFalling(afterBelow(B, below, rows2), dt))
    /\ log' = TickLog(A, advancesIn(A, B, below))
    /\ advances' = advances + advancesIn(A, B, below)
    /\ UNCHANGED shots

\* A is shotPhase(state, dt); the next state is update(state, dt, rows1, rows2)
TickRun(A, below, dt) ==
  \E rows1 \in RowDraws(A.S, A.called) : TickEnd(A, afterHit(A, rows1), below, dt)

\* faulty variant of Tick: update(dt) runs whether or not state.running
TickIgnoresPause ==
  \E dt \in FrameDts :
    /\ TickRun(shotPhase(state, dt), fellBelow(state, dt), dt)

\* loop(now), lines 620-626: update(dt) runs only while state.running
Tick ==
  \E dt \in FrameDts :
    IF state.running
    THEN TickRun(shotPhase(state, dt), fellBelow(state, dt), dt)
    ELSE /\ log' = OpLog("tick")
         /\ UNCHANGED <<state, shots, advances>>

Next == Shoot \/ Pause \/ Restart \/ Tick

Spec == Init /\ [][Next]_vars

\* one game, from boot on without restart
NextLive == Shoot \/ Pause \/ Tick

\* requestAnimationFrame(loop) is re-armed by every call of loop (line 625),
\* so loop is always scheduled again: frames keep arriving
SpecLive == Init /\ [][NextLive]_vars /\ []<><<Tick>>_vars

---------------------------------------------------------------------------
(* Vocabulary of the properties.  Boards are read here by the geometry of  *)
(* the packing: two cells touch when their centres are at most one bubble  *)
(* diameter apart.                                                         *)

CellsOf(g) == UNION {{<<c, r>> : c \in 0..(Len(g[r + 1]) - 1)} : r \in 0..(Len(g) - 1)}

At(g, p) == g[p[2] + 1][p[1] + 1]

OccupiedIn(g) == {p \in CellsOf(g) : At(g, p) # Null}

Centre(p) ==
  [x |-> p[1] * D + R + (IF p[2] % 2 = 1 THEN R ELSE 0), y |-> p[2] * ROW_H + R]

Touching(p, q) ==
  /\ p # q
  /\ (Centre(p).x - Centre(q).x) * (Centre(p).x - Centre(q).x)
       + (Centre(p).y - Centre(q).y) * (Centre(p).y - Centre(q).y) <= D * D

\* the cells of `among` joined to a cell of `from` by a chain of touching cells
RECURSIVE ConnectedFrom(_, _)
ConnectedFrom(from, among) ==
  IF \E q \in among \ from : \E p \in from : Touching(p, q)
  THEN ConnectedFrom(from \cup {q \in among : \E p \in from : Touching(p, q)}, among)
  ELSE from

\* the maximal connected same-colour group of an occupied cell
Group(g, p) == ConnectedFrom({p}, {q \in OccupiedIn(g) : At(g, q) = At(g, p)})

\* the occupied cells joined to row 0 by a chain of occupied cells
CeilingConnected(g) ==
  ConnectedFrom({p \in OccupiedIn(g) : p[2] = 0}, OccupiedIn(g))

\* board g with the cells of `gone` emptied
Without(g, gone) ==
  [rr \in 1..Len(g) |-> [cc \in 1..Len(g[rr]) |->
     IF <<cc - 1, rr - 1>> \in gone THEN Null ELSE g[rr][cc]]]

RowShape(g) ==
  \A r \in 0..(Len(g) - 1) : Len(g[r + 1]) = (IF r % 2 = 0 THEN COLS ELSE COLS - 1)

FloorTouched(g) ==
  \E p \in OccupiedIn(g) : Centre(p).y + R >= LOGICAL_H - SUB

Resolved == log.op = "tick" /\ log.ran /\ log.hit # "none"

Placed == Resolved /\ log.placed

---------------------------------------------------------------------------
(* C1: after every board mutation each row r of the grid has COLS slots    *)
(* when r is even and COLS-1 when r is odd, and state.rows is the number   *)
(* of rows; this covers the boards between the steps of a resolution       *)
(* (after placeAt, popClusterAt, dropIslands) and the final board.         *)
C1_RowLengths ==
  /\ RowShape(state.grid)
  /\ state.rows = Len(state.grid)
  /\ RowShape(log.gridPlaced) /\ RowShape(log.gridPopped) /\ RowShape(log.gridDropped)

\* a ceiling advance has just shifted the parity of rows that hold bubbles
C1_Witness ==
  /\ log.op = "tick" /\ log.advanced > 0
  /\ Len(state.grid) > SeedRows
  /\ \E p \in OccupiedIn(state.grid) : p[2] >= 2

(* C2: popClusterAt(c,r) removes bubbles iff the maximal connected         *)
(* same-colour group of (c,r) has at least 3 cells; it then empties        *)
(* exactly that group, and otherwise leaves the board unchanged and        *)
(* returns 0.  Checked for the call update makes at the placed cell and    *)
(* for a call at every occupied cell of the current board.                 *)
PopMatches(g, p, after, n) ==
  IF Cardinality(Group(g, p)) >= 3
  THEN n = Cardinality(Group(g, p)) /\ after = Without(g, Group(g, p))
  ELSE n = 0 /\ after = g

C2_PopExactlyGroup ==
  /\ Placed => PopMatches(log.gridPlaced, <<log.target[1].c, log.target[1].r>>,
                          log.gridPopped, log.popped)
  /\ \A p \in OccupiedIn(state.grid) :
       PopMatches(state.grid, p, popClusterAt(state, p[1], p[2]).S.grid,
                  popClusterAt(state, p[1], p[2]).n)

\* a placement completed a group of 3 or more, which was popped, and left
\* other bubbles on the board
C2_Witness ==
  /\ Placed /\ log.popped >= 3
  /\ OccupiedIn(log.gridPopped) # {}

(* C3: after a shot resolution in which a cluster popped, when that        *)
(* resolution completes (the end of the tick, the pending ceiling advance  *)
(* included) no occupied cell of the board is unconnected to row 0.        *)
C3_NoFloatingAfterPop ==
  (Resolved /\ log.popped > 0) => OccupiedIn(state.grid) \subseteq CeilingConnected(state.grid)

\* the same for the board dropIslands leaves, before the ceiling advance
C3_NoFloatingBeforeAdvance ==
  (Resolved /\ log.popped > 0) =>
     OccupiedIn(log.gridDropped) \subseteq CeilingConnected(log.gridDropped)

(* C4: a pop of k bubbles adds 10*k to the score; an island drop of m      *)
(* bubbles adds 5*m and appends exactly m falling particles, one per       *)
(* dropped cell, at the cell's centre, of the cell's colour, with zero     *)
(* vertical velocity; nothing else a frame, a shot or a pause does         *)
(* changes the score.                                                      *)
Emptied(g, h) == {p \in OccupiedIn(g) : At(h, p) = Null}

NewParticles(old, new) == {new[i] : i \in (Len(old) + 1)..Len(new)}

C4_Step ==
  /\ log'.op \in {"shoot", "pause"} => state'.score = state.score
  /\ log'.op = "tick" =>
       state'.score = state.score + 10 * log'.popped + 5 * log'.dropped
  /\ (log'.op = "tick" /\ log'.placed) =>
       /\ log'.popped = Cardinality(Emptied(log'.gridPlaced, log'.gridPopped))
       /\ log'.dropped = Cardinality(Emptied(log'.gridPopped, log'.gridDropped))
       /\ Len(log'.fallingDropped) = Len(state.falling) + log'.dropped
       /\ SubSeq(log'.fallingDropped, 1, Len(state.falling)) = state.falling
       /\ NewParticles(state.falling, log'.fallingDropped)
            = {[x |-> Centre(p).x, y |-> Centre(p).y, vy |-> 0,
                color |-> At(log'.gridPopped, p)] :
                 p \in Emptied(log'.gridPopped, log'.gridDropped)}

C4_Scoring == [][C4_Step]_vars

\* a pop that also dropped an island
C4_Witness == Placed /\ log.popped >= 3 /\ log.dropped >= 1 /\ state.score >= 35

(* C5 as stated: the mode goes from playing to win iff the board has no    *)
(* occupied cell immediately after a shot resolution step, and at no       *)
(* other moment.                                                           *)
C5_WinOnlyAfterResolution ==
  [][state.mode = "playing" =>
       (state'.mode = "win" <=> (Resolved' /\ OccupiedIn(state'.grid) = {}))]_vars

(* C5 amended: the mode goes from playing to win iff a frame runs update   *)
(* and the board has no occupied cell when update ends; the board is       *)
(* emptied only by a shot resolution or seeded empty by a restart.         *)
C5_Step ==
  /\ state.mode = "playing" =>
       (state'.mode = "win" <=>
          (log'.op = "tick" /\ log'.ran /\ OccupiedIn(state'.grid) = {}))
  /\ (OccupiedIn(state.grid) # {} /\ OccupiedIn(state'.grid) = {}) =>
       (Resolved' \/ log'.op = "restart")

C5_WinAtEndOfUpdate == [][C5_Step]_vars

\* the win a resolution brought about: the last bubbles were popped
C5_Witness == state.mode = "win" /\ Resolved /\ log.popped >= 3

(* C6: the mode goes from playing to lose iff the board is non-empty and   *)
(* some occupied cell has y + R >= LOGICAL_H - 1, at the end of a frame's  *)
(* update.                                                                 *)
C6_Step ==
  state.mode = "playing" =>
    (state'.mode = "lose" <=>
       (/\ log'.op = "tick" /\ log'.ran
        /\ OccupiedIn(state'.grid) # {}
        /\ FloorTouched(state'.grid)))

C6_LoseAtFloor == [][C6_Step]_vars

C6_Witness ==
  /\ state.mode = "lose" /\ log.op = "tick" /\ log.ran
  /\ FloorTouched(state.grid)

(* C7 as stated: from a fresh schedule, once dropInterval shots are fired  *)
(* and the last one's projectile has resolved there has been exactly one   *)
(* ceiling advance, and none before that resolution.                       *)
C7_ExactlyOneAdvance ==
  /\ (shots < state.drop.every \/ state.moving # <<>>) =>
       (shots <= state.drop.every => advances = 0)
  /\ (shots = state.drop.every /\ state.moving = <<>>) => advances = 1

(* C7 amended: from a fresh schedule, dropInterval shots cause at most one *)
(* ceiling advance, none at fire time or while a projectile is in flight;  *)
(* in the tick that places the last shot's projectile exactly one advance  *)
(* is applied, unless the game is over, and then none.                     *)
C7_OneAdvanceUnlessOver ==
  /\ shots <= state.drop.every => advances <= 1
  /\ (shots < state.drop.every \/ state.moving # <<>>) =>
       (shots <= state.drop.every => advances = 0)
  /\ (shots = state.drop.every /\ Placed) =>
       \/ log.advanced = 1 /\ advances = 1 /\ ~state.drop.pending
       \/ /\ log.advanced = 0 /\ advances = 0 /\ state.drop.pending
          /\ state.mode # "playing"

\* the last shot of the interval was placed and the ceiling advanced
C7_Witness ==
  shots = state.drop.every /\ Placed /\ log.advanced = 1 /\ advances = 1

(* C8: however the shot that made a ceiling drop pending resolves (placed, *)
(* discarded for want of a free candidate cell, or out of the field), the  *)
(* pending advance is applied in that tick while the mode is playing: no   *)
(* pending flag is left in a playing state with no projectile in flight.   *)
C8_NoPendingAtRest ==
  (state.mode = "playing" /\ state.moving = <<>>) => ~state.drop.pending

\* the same, for the shots that are placed on the board
C8_NoPendingAfterPlacement ==
  (Placed /\ state.mode = "playing") => ~state.drop.pending

(* C9: shoot() changes nothing when a projectile is in flight, when the    *)
(* game is paused, or when the mode is not playing.                        *)
C9_Step ==
  (/\ log'.op = "shoot"
   /\ (state.moving # <<>> \/ ~state.running \/ state.mode # "playing"))
  => state' = state

C9_ShootNoOp == [][C9_Step]_vars

\* a fire attempt was turned down while a projectile was in flight
C9_Witness ==
  /\ log.op = "shoot" /\ ~log.ran
  /\ state.moving # <<>> /\ state.running /\ state.mode = "playing"

(* C10: once the mode is win or lose, no tick, fire attempt or pause       *)
(* toggle changes it; a restart returns it to playing.                     *)
C10_Step ==
  /\ (state.mode \in {"win", "lose"} /\ log'.op # "restart") =>
       state'.mode = state.mode
  /\ log'.op = "restart" => state'.mode = "playing"

C10_ModeAbsorbing == [][C10_Step]_vars

\* update ran in a finished game (resumed with the pause key)
C10_Witness ==
  /\ state.mode \in {"win", "lose"}
  /\ log.op = "tick" /\ log.ran

(* C11: restart(), from any state, yields: running, mode playing, score 0, *)
(* no projectile, no falling particle, a freshly seeded board of the       *)
(* seeded row count (each cell empty or of its seed colour), shooter       *)
(* current and next both set, drop counter equal to the drop interval,     *)
(* pending false.                                                          *)
SeedColor(p) == COLORS[((p[1] + p[2]) % Min(4, Len(COLORS))) + 1]

FreshBoard(g) ==
  /\ Len(g) = SeedRows
  /\ RowShape(g)
  /\ \A p \in OccupiedIn(g) : At(g, p) = SeedColor(p)

C11_Step ==
  log'.op = "restart" =>
    /\ state'.running /\ state'.mode = "playing" /\ state'.score = 0
    /\ state'.moving = <<>> /\ state'.falling = <<>>
    /\ FreshBoard(state'.grid) /\ state'.rows = SeedRows
    /\ state'.shooter.current \in ColorSet /\ state'.shooter.next \in ColorSet
    /\ state'.drop.shotsLeft = state'.drop.every /\ state'.drop.every = state.drop.every
    /\ ~state'.drop.pending

C11_RestartResets == [][C11_Step]_vars

\* restart() has just run and seeded bubbles
C11_Witness ==
  /\ log.op = "restart" /\ OccupiedIn(state.grid) # {}
  /\ state.mode = "playing" /\ state.running /\ state.moving = <<>>

(* C12: on every accepted fire the projectile carries the colour that was  *)
(* the shooter's current, current becomes the former next, and next is a   *)
(* newly drawn colour of the palette; current and next are defined in      *)
(* every state.                                                            *)
C12_Step ==
  /\ state'.shooter.current \in ColorSet /\ state'.shooter.next \in ColorSet
  /\ (log'.op = "shoot" /\ log'.ran) =>
       /\ state.moving = <<>> /\ Len(state'.moving) = 1
       /\ state'.moving[1].color = state.shooter.current
       /\ state'.shooter.current = state.shooter.next
  /\ (log'.op \in {"shoot", "pause", "tick"} /\ ~log'.ran) =>
       state'.shooter = state.shooter

C12_ShooterQueue ==
  /\ state.shooter.current \in ColorSet /\ state.shooter.next \in ColorSet
  /\ [][C12_Step]_vars

\* a projectile of one colour is in flight while the queue holds the other
C12_Witness ==
  /\ log.op = "shoot" /\ log.ran /\ state.moving # <<>>
  /\ state.moving[1].color # state.shooter.current

(* C13: while the run flag is off a frame skips update(): board,           *)
(* projectile, falling particles, score, mode, shooter queue and drop      *)
(* schedule are unchanged by the tick.                                     *)
C13_Step == (log'.op = "tick" /\ ~state.running) => state' = state

C13_PausedTickIdle == [][C13_Step]_vars

\* a frame came while the game was paused with a projectile in flight
C13_Witness ==
  /\ log.op = "tick" /\ ~log.ran /\ ~state.running
  /\ state.mode = "playing" /\ state.moving # <<>>

(* C14: a ceiling advance of n rows prepends n fully coloured rows and     *)
(* shifts the existing rows down by n: every bubble that was at (c, r) is  *)
(* at (c, r + n) afterwards with the same colour, and none is lost.        *)
\* log.gridDropped is the board dropCeiling() received, state.grid the one it left
C14_AdvanceShiftsRows ==
  (log.op = "tick" /\ log.advanced > 0) =>
    /\ Len(state.grid) = Len(log.gridDropped) + log.advanced * DropRows
    /\ \A p \in CellsOf(state.grid) :
         p[2] < log.advanced * DropRows => At(state.grid, p) \in ColorSet
    /\ \A p \in OccupiedIn(log.gridDropped) :
         /\ <<p[1], p[2] + log.advanced * DropRows>> \in CellsOf(state.grid)
         /\ At(state.grid, <<p[1], p[2] + log.advanced * DropRows>>) = At(log.gridDropped, p)

(* C15: between restarts the score never decreases, and it changes only    *)
(* by 10 for each bubble a pop removed and 5 for each bubble an island     *)
(* drop removed.                                                           *)
C15_Step ==
  log'.op # "restart" =>
    /\ state'.score >= state.score
    /\ state'.score - state.score =
         IF log'.op = "tick" /\ log'.placed
         THEN 10 * Cardinality(Emptied(log'.gridPlaced, log'.gridPopped))
              + 5 * Cardinality(Emptied(log'.gridPopped, log'.gridDropped))
         ELSE 0

C15_ScoreMonotone == [][C15_Step]_vars

\* a resolution that popped a group and dropped an island has raised the score
C15_Witness ==
  /\ Placed /\ log.popped >= 3 /\ log.dropped >= 1
  /\ state.score = 10 * log.popped + 5 * log.dropped

(* C16: for every in-bounds cell (c, r), converting the cell to its world  *)
(* centre and back gives (c, r) again.                                     *)
C16_CellRoundTrip ==
  \A p \in CellsOf(state.grid) :
    /\ inBounds(state, p[1], p[2])
    /\ worldToCell(cellToWorld(p[1], p[2]).x, cellToWorld(p[1], p[2]).y)
         = [c |-> p[1], r |-> p[2]]

\* the board has grown past its seeded rows, with odd and even rows in bounds
C16_Witness ==
  /\ state.rows > SeedRows
  /\ \E p \in OccupiedIn(state.grid) : p[2] >= SeedRows /\ p[2] % 2 = 1
  /\ \E p \in OccupiedIn(state.grid) : p[2] >= SeedRows /\ p[2] % 2 = 0

(* C17: within a tick that places the projectile the order is: place,     *)
(* pop at the placed cell, island drop if and only if the pop removed at   *)
(* least one bubble, win/lose check, then the drop scheduler.  So a        *)
(* pending advance is skipped when the resolution ended the game, and no   *)
(* island drop runs after a placement that popped nothing.                 *)
\* the mode checkWinLose() leaves when called in mode `mode` on board g
ModeChecked(mode, g) ==
  IF OccupiedIn(g) = {} THEN "win" ELSE IF FloorTouched(g) THEN "lose" ELSE mode

C17_Target == <<log'.target[1].c, log'.target[1].r>>

C17_Step ==
  (log'.op = "tick" /\ log'.ran /\ log'.hit # "none" /\ log'.placed) =>
    \* place: the board gains the projectile's colour at the target, nothing else
    /\ CellsOf(state.grid) \subseteq CellsOf(log'.gridPlaced)
    /\ \A p \in CellsOf(log'.gridPlaced) :
         At(log'.gridPlaced, p) =
           IF p = C17_Target THEN state.moving[1].color
           ELSE IF p \in CellsOf(state.grid) THEN At(state.grid, p) ELSE Null
    \* pop at the placed cell
    /\ PopMatches(log'.gridPlaced, C17_Target, log'.gridPopped, log'.popped)
    \* island drop iff the pop removed something
    /\ log'.popped = 0 =>
         /\ log'.gridDropped = log'.gridPopped
         /\ log'.fallingDropped = state.falling
         /\ log'.dropped = 0
    /\ log'.popped > 0 =>
         /\ log'.gridDropped
              = Without(log'.gridPopped,
                        OccupiedIn(log'.gridPopped) \ CeilingConnected(log'.gridPopped))
         /\ Len(log'.fallingDropped) = Len(state.falling) + log'.dropped
    \* win/lose check, then the scheduler
    /\ log'.advanced =
         IF state.drop.pending /\ ModeChecked(state.mode, log'.gridDropped) = "playing"
         THEN 1 ELSE 0
    /\ log'.advanced = 0 =>
         /\ state'.grid = log'.gridDropped
         /\ state'.mode = ModeChecked(state.mode, log'.gridDropped)
         /\ state'.drop = state.drop
    /\ log'.advanced = 1 =>
         /\ Len(state'.grid) = Len(log'.gridDropped) + DropRows
         /\ ~state'.drop.pending

C17_ResolutionOrder == [][C17_Step]_vars

\* a placement that popped nothing left a floating bubble on the board and
\* ended the game, so the pending advance was skipped
C17_Witness ==
  /\ Placed /\ log.popped = 0 /\ log.advanced = 0
  /\ ~(OccupiedIn(log.gridDropped) \subseteq CeilingConnected(log.gridDropped))
  /\ state.mode = "lose" /\ state.drop.pending

(* C18: whenever snapToNearestFreeCell returns a cell, the cell is in      *)
(* bounds, unoccupied, and no free in-bounds cell among the candidates     *)
(* (the seed cell and the cells within two neighbour hops of it) is        *)
(* closer to the impact point; so the placeAt that update() then calls     *)
(* succeeds.                                                               *)
\* the lattice positions one neighbour hop from p (rows above the ceiling
\* add no cell of the board that the rows from 0 on do not add)
C18_Hop(p) ==
  {q \in ((p[1] - 1)..(p[1] + 1)) \X (Max(0, p[2] - 1)..(p[2] + 1)) : Touching(p, q)}

\* the seed cell and the cells within two neighbour hops of it
C18_Near(seed) ==
  {seed} \cup C18_Hop(seed) \cup UNION {C18_Hop(m) : m \in C18_Hop(seed)}

\* in bounds on the grown board `grown`, and empty on the board `before`
C18_Free(q, before, grown) ==
  /\ q \in CellsOf(grown)
  /\ q \in CellsOf(before) => At(before, q) = Null

C18_Dist(x, y, q) == distance2(x, y, Centre(q).x, Centre(q).y)

\* t is the returned cell (<<>> for null), free the free candidates
C18_Nearest(x, y, t, free) ==
  /\ Len(t) = 0 => free = {}
  /\ Len(t) = 1 =>
       /\ <<t[1].c, t[1].r>> \in free
       /\ \A q \in free : C18_Dist(x, y, <<t[1].c, t[1].r>>) <= C18_Dist(x, y, q)

\* (x, y) is the point handed to the snap, w the cell worldToCell gives for it
C18_Snapped(x, y, w, before, grown, t) ==
  C18_Nearest(x, y, t,
              {q \in C18_Near(<<w.c, Max(0, w.r)>>) :
                 C18_Free(q, before, grown)})

\* ball is the projectile where update() tests it
C18_Hit(ball, y) ==
  /\ C18_Snapped(ball.x, y, worldToCell(ball.x, y), state.grid, log'.gridPlaced, log'.target)
  /\ Len(log'.target) = 1 =>
       /\ log'.placed
       /\ At(log'.gridPlaced, C17_Target) = state.moving[1].color

C18_Step ==
  (log'.op = "tick" /\ log'.ran /\ log'.hit # "none") =>
    C18_Hit(stepShot(state.moving[1], MAX_DT),
            IF log'.hit = "ceiling" THEN R ELSE stepShot(state.moving[1], MAX_DT).y)

C18_SnapNearestFree == [][C18_Step]_vars

\* the projectile was placed in the last row of the grown board, which is
\* below the seed cell's row: the scan passed over the seed
C18_Witness ==
  /\ Placed /\ log.hit = "grid"
  /\ log.target[1].r = Len(log.gridPlaced) - 1

(* C19: placeAt(c, r, color) returns false and leaves the content of every *)
(* cell unchanged when (c, r) is out of bounds or already occupied (it     *)
(* never overwrites; it may only grow the board with empty rows), and      *)
(* returns true with exactly that one cell newly set when (c, r) is in     *)
(* bounds and empty.  As stated, bounds are those of the board at the      *)
(* call; as amended, those of the board grown to r + 1 rows.               *)
\* the calls examined: around and beyond the board of the current state
C19_Cols == -1..COLS

C19_Rows == -1..(state.rows + 1)

\* board `after` is board `before`, possibly with more rows, and differs in
\* content exactly at the cells of `set`, which hold `color`
C19_Differs(before, after, set, color) ==
  /\ Len(after) >= Len(before) /\ RowShape(before) /\ RowShape(after)
  /\ \A p \in CellsOf(after) :
       At(after, p) = IF p \in set THEN color
                      ELSE IF p[2] < Len(before) THEN At(before, p) ELSE Null

C19_OnBoard(c, r) ==
  r >= 0 /\ r < Len(state.grid) /\ c >= 0 /\ c < Len(state.grid[r + 1])

\* `inb` says whether (c, r) counts as in bounds, P is placeAt's result
C19_Outcome(c, r, color, inb, P) ==
  /\ P.S.rows = Len(P.S.grid) /\ Len(P.S.grid) = Max(Len(state.grid), r + 1)
  /\ IF inb /\ (C19_OnBoard(c, r) => At(state.grid, <<c, r>>) = Null)
     THEN P.ok /\ C19_Differs(state.grid, P.S.grid, {<<c, r>>}, color)
     ELSE ~P.ok /\ C19_Differs(state.grid, P.S.grid, {}, color)

\* as stated: in bounds of the board as it is when placeAt is called
C19_PlaceAtBoundsAtCall ==
  \A c \in C19_Cols : \A r \in C19_Rows :
    C19_Outcome(c, r, state.shooter.current, inBounds(state, c, r),
                placeAt(state, c, r, state.shooter.current))

\* as amended: in bounds of the board once grown to r + 1 rows
C19_PlaceAtBoundsAfterGrowth ==
  \A c \in C19_Cols : \A r \in C19_Rows :
    C19_Outcome(c, r, state.shooter.current,
                r >= 0 /\ c >= 0 /\ c < (IF r % 2 = 0 THEN COLS ELSE COLS - 1),
                placeAt(state, c, r, state.shooter.current))

\* update() has just placed a bubble that stayed; a second call there is
\* refused, and a call one row below the board grows it and succeeds
C19_Witness ==
  /\ Placed /\ log.popped = 0 /\ log.advanced = 0
  /\ ~placeAt(state, log.target[1].c, log.target[1].r, state.shooter.current).ok
  /\ placeAt(state, 0, state.rows, state.shooter.current).ok
  /\ ~inBounds(state, 0, state.rows)

(* C20: win/lose is re-evaluated right after every ceiling advance: if     *)
(* after the advance some occupied cell touches the floor, the mode is     *)
(* lose and the run flag off by the end of the same tick, before any       *)
(* further shot can be fired.                                              *)
C20_Step ==
  (log'.op = "tick" /\ log'.advanced > 0) =>
    /\ state.mode = "playing" /\ state.running
    /\ FloorTouched(state'.grid) =>
         /\ state'.mode = "lose" /\ ~state'.running
         /\ ShootGuard(state')
    /\ (OccupiedIn(state'.grid) # {} /\ ~FloorTouched(state'.grid)) =>
         state'.mode = "playing" /\ state'.running

C20_LoseAfterAdvance == [][C20_Step]_vars

\* an advance pushed a bubble onto the floor that was clear of it before
C20_Witness ==
  /\ log.op = "tick" /\ log.advanced > 0
  /\ ~FloorTouched(log.gridDropped) /\ FloorTouched(state.grid)
  /\ state.mode = "lose" /\ ~state.running

(* C21: every colour drawn for the shooter's next slot at fire time, for   *)
(* the shooter slots at boot and restart, and for each cell of a new       *)
(* ceiling row is a colour carried by some bubble on the board at the      *)
(* moment of the draw; the full palette is used only when the board has    *)
(* no bubble.                                                              *)
ColorsOn(g) == {At(g, p) : p \in OccupiedIn(g)}

DrawFrom(g) == IF OccupiedIn(g) = {} THEN ColorSet ELSE ColorsOn(g)

C21_Step ==
  /\ (log'.op = "shoot" /\ log'.ran) => state'.shooter.next \in DrawFrom(state.grid)
  /\ log'.op = "restart" =>
       {state'.shooter.current, state'.shooter.next} \subseteq DrawFrom(state'.grid)
  /\ (log'.op = "tick" /\ log'.advanced > 0) =>
       /\ OccupiedIn(log'.gridDropped) # {}
       /\ \A p \in CellsOf(state'.grid) :
            p[2] < log'.advanced * DropRows
              => At(state'.grid, p) \in ColorsOn(log'.gridDropped)

C21_DrawsFromBoard ==
  /\ {state.shooter.current, state.shooter.next} \subseteq DrawFrom(state.grid)
  /\ [][C21_Step]_vars

\* a fire on a board that carries one colour of the palette only
C21_Witness ==
  /\ log.op = "shoot" /\ log.ran
  /\ Cardinality(ColorsOn(state.grid)) = 1
  /\ state.shooter.next \in ColorsOn(state.grid)
  /\ Cardinality(ColorSet) > 1

(* C22: each accepted fire decrements the drop counter exactly once, at    *)
(* fire time; when the decrement brings it to zero the pending flag is set *)
(* and the counter is reset to the interval in the same step; no           *)
(* resolution path (placement, discard, leaving the field) and no tick     *)
(* changes the counter.                                                    *)
C22_Step ==
  /\ (log'.op = "shoot" /\ log'.ran) =>
       /\ state'.drop.every = state.drop.every
       /\ IF state.drop.shotsLeft - 1 <= 0
          THEN state'.drop.shotsLeft = state.drop.every /\ state'.drop.pending
          ELSE /\ state'.drop.shotsLeft = state.drop.shotsLeft - 1
               /\ state'.drop.pending = state.drop.pending
  /\ (log'.op = "shoot" /\ ~log'.ran) => state'.drop = state.drop
  /\ log'.op \in {"tick", "pause"} =>
       /\ state'.drop.shotsLeft = state.drop.shotsLeft
       /\ state'.drop.every = state.drop.every
       /\ state'.drop.pending => state.drop.pending

C22_CountedAtFire == [][C22_Step]_vars

\* a shot counted at fire time has been placed and the counter still shows
\* the count taken at the fire
C22_Witness ==
  /\ Placed /\ shots = 1
  /\ state.drop.shotsLeft = state.drop.every - 1
  /\ state.drop.shotsLeft >= 1

(* C23: for any pointer position, including one below or directly behind   *)
(* the shooter, the angle of a fired projectile lies in                    *)
(* [MIN_ANGLE, MAX_ANGLE]; its vertical velocity is strictly upward at     *)
(* launch and unchanged for the whole flight, a wall reflection negating   *)
(* only the horizontal component.                                          *)
\* an angle a is in [MIN_ANGLE, MAX_ANGLE] exactly when sin(a) >= sin(MIN_ANGLE)
\* and the vertical velocity -sin(a) * SHOOT_SPEED points up
C23_InCone(b) ==
  /\ b.vy < 0
  /\ -b.vy >= (SinMilli(MIN_ANGLE) * SHOOT_SPEED * SUB) \div 1000
  /\ b.vx <= (CosMilli(MIN_ANGLE) * SHOOT_SPEED * SUB) \div 1000
  \* one unit more on the negative side: the fixed-point quotient rounds down
  /\ -b.vx <= (CosMilli(MIN_ANGLE) * SHOOT_SPEED * SUB) \div 1000 + 1

C23_Step ==
  /\ (log'.op = "shoot" /\ log'.ran) =>
       /\ C23_InCone(state'.moving[1])
       /\ state'.moving[1].x = ShooterX /\ state'.moving[1].y = ShooterY
  /\ (state.moving # <<>> /\ state'.moving # <<>> /\ log'.op # "restart") =>
       /\ state'.moving[1].vy = state.moving[1].vy
       /\ state'.moving[1].color = state.moving[1].color
       /\ \/ state'.moving[1].vx = state.moving[1].vx
          \/ /\ state'.moving[1].vx = -state.moving[1].vx
             /\ log'.op = "tick"
             /\ \/ state'.moving[1].x - R <= 0
                \/ state'.moving[1].x + R >= LOGICAL_W
       /\ (log'.op = "tick" /\ log'.ran) => state'.moving[1].y < state.moving[1].y

C23_UpwardCone ==
  /\ state.moving = <<>>
  /\ [][C23_Step]_vars

\* a projectile in flight has just been reflected by the left wall
C23_Witness ==
  /\ log.op = "tick" /\ log.ran /\ state.moving # <<>>
  /\ state.moving[1].x - R <= 0 /\ state.moving[1].vx > 0
  /\ state.moving[1].vy < 0

(* C24: the drop counter shotsLeft satisfies 1 <= shotsLeft <= drop        *)
(* interval in every state observable between operations (after boot,     *)
(* after any fire, tick, pause toggle or restart); it is never zero or     *)
(* negative.                                                               *)
C24_CounterInRange ==
  /\ state.drop.shotsLeft >= 1
  /\ state.drop.shotsLeft <= state.drop.every
  /\ state.drop.every = DropEvery

\* the fire that made the advance due has put the counter back to the interval
C24_Witness ==
  /\ log.op = "shoot" /\ log.ran /\ shots = DropEvery
  /\ state.drop.pending /\ state.drop.shotsLeft = state.drop.every

(* C25: in every reachable state, mode = win implies the board has no      *)
(* occupied cell, and mode = lose implies some occupied cell touches the   *)
(* floor, for any sequence of fires, ticks, pause toggles and restarts,    *)
(* including a fire issued before the first tick after boot or restart.    *)
C25_ModeMatchesBoard ==
  /\ state.mode = "win" => OccupiedIn(state.grid) = {}
  /\ state.mode = "lose" => FloorTouched(state.grid)

\* the half of the statement about lose, on its own
C25_LoseMatchesBoard == state.mode = "lose" => FloorTouched(state.grid)

(* C26: every fired projectile is eventually resolved: provided the game   *)
(* keeps running and frames keep arriving, state.moving returns to null    *)
(* after finitely many ticks (a grid hit or, at the latest, a ceiling      *)
(* hit); a shot cannot stay in flight forever while the game runs.         *)
\* a frame that runs update()
C26_RunningFrame == state.running /\ Tick

\* if frames that run update() keep arriving, a projectile in flight is
\* eventually resolved
C26_ShotResolves ==
  []<><<C26_RunningFrame>>_vars => ((state.moving # <<>>) ~> (state.moving = <<>>))

\* a projectile that met no bubble has been resolved at the ceiling
C26_Witness ==
  /\ Resolved /\ log.hit = "ceiling" /\ log.placed
  /\ state.moving = <<>> /\ state.running

(* C27: the neighbour relation of neighbors(c, r) is symmetric on          *)
(* in-bounds cells for both row parities: (c2, r2) is among the            *)
(* neighbours of (c1, r1) exactly when (c1, r1) is among those of          *)
(* (c2, r2); so a same-colour cluster does not depend on the cell the      *)
(* traversal starts from.                                                  *)
C27_Neighbours(p) == {<<neighbors(p[1], p[2])[i].c, neighbors(p[1], p[2])[i].r>> : i \in 1..6}

C27_CellsIn(seq) == {<<seq[i].c, seq[i].r>> : i \in 1..Len(seq)}

\* the cluster the traversal builds from p
C27_Cluster(p) == C27_CellsIn(bfsSameColor(state, p[1], p[2]))

\* every cell of the cluster built from p builds the same cluster
C27_SameFrom(p, cluster) == \A q \in cluster : C27_Cluster(q) = cluster

C27_NeighboursSymmetric ==
  /\ \A p \in CellsOf(state.grid) :
       /\ inBounds(state, p[1], p[2])
       /\ p \notin C27_Neighbours(p)
       /\ \A q \in C27_Neighbours(p) \cap CellsOf(state.grid) : p \in C27_Neighbours(q)
  /\ \A p \in OccupiedIn(state.grid) : C27_SameFrom(p, C27_Cluster(p))

\* a group that popped had cells on an even and on an odd row
C27_Witness ==
  /\ Placed /\ log.popped >= 3
  /\ \E p \in Emptied(log.gridPlaced, log.gridPopped) : p[2] % 2 = 0
  /\ \E p \in Emptied(log.gridPlaced, log.gridPopped) : p[2] % 2 = 1

===========================================================================
